---- MODULE Spec2Model ----
(***************************************************************************)
(* Model of the SARIF finding-ingestion pipeline of the triage portal:     *)
(*   src/src/triage/util/finding_importers/sarif_importer.py               *)
(*                                                                         *)
(* Strings that the code takes apart (file paths, uriBaseId) are modelled  *)
(* as sequences of one-character strings, so that split, join, strip,      *)
(* endswith, basename and upper are computed character by character.       *)
(* Opaque strings (message text, tool names) stay TLA+ strings.            *)
(*                                                                         *)
(* Not modelled: the audit fields (created_by / updated_by), the derived   *)
(* display fields normalized_title and severity_level, and the rule        *)
(* description map, none of which is read by the control flow.             *)
(***************************************************************************)
EXTENDS Integers, Sequences, FiniteSets, Bags, TLC

(***************************************************************************)
(* Character-level string helpers (Python str methods, posixpath).         *)
(***************************************************************************)
Sep == "/"

RECURSIVE SplitAcc(_, _, _, _)
SplitAcc(s, i, cur, acc) ==
    IF i > Len(s) THEN Append(acc, cur)
    ELSE IF s[i] = Sep THEN SplitAcc(s, i + 1, <<>>, Append(acc, cur))
    ELSE SplitAcc(s, i + 1, Append(cur, s[i]), acc)

\* str.split("/"): every separator cuts; empty segments are kept.
Split(s) == SplitAcc(s, 1, <<>>, <<>>)

RECURSIVE Join(_)
\* "/".join(parts)
Join(parts) ==
    IF Len(parts) = 0 THEN <<>>
    ELSE IF Len(parts) = 1 THEN parts[1]
    ELSE parts[1] \o <<Sep>> \o Join(Tail(parts))

\* str.endswith(t)
EndsWith(s, t) ==
    /\ Len(t) <= Len(s)
    /\ SubSeq(s, Len(s) - Len(t) + 1, Len(s)) = t

\* posixpath.basename(p): p[p.rfind("/") + 1:]
Basename(p) ==
    LET seps == {i \in 1..Len(p) : p[i] = Sep}
        last == IF seps = {} THEN 0 ELSE CHOOSE i \in seps : \A j \in seps : j <= i
    IN  SubSeq(p, last + 1, Len(p))

\* str.strip("/"): leading and trailing separators removed.
Strip(p) ==
    LET keep == {i \in 1..Len(p) : p[i] # Sep}
    IN  IF keep = {} THEN <<>>
        ELSE LET lo == CHOOSE i \in keep : \A j \in keep : i <= j
                 hi == CHOOSE i \in keep : \A j \in keep : j <= i
             IN  SubSeq(p, lo, hi)

(***************************************************************************)
(* Path Normalizer.                                                        *)
(***************************************************************************)
PackageMarker == <<"p", "a", "c", "k", "a", "g", "e">>

\* Mutant: the marker is looked for one segment late, so that a path with a
\* leading separator ("/a/b/package/...") is cut at the marker.
NormalizeTryLate(path) ==
    LET parts == Split(path)
    IN  IF Len(parts) < 4 THEN [raised |-> TRUE, value |-> path]
        ELSE IF parts[4] = PackageMarker
             THEN [raised |-> FALSE, value |-> Join(SubSeq(parts, 4, Len(parts)))]
             ELSE [raised |-> FALSE, value |-> path]

\* The body of the try block: path.split("/")[2] raises IndexError when the
\* path has fewer than 3 segments (Python index 2 is TLA+ index 3).
NormalizeTry(path) ==
    LET parts == Split(path)
    IN  IF Len(parts) < 3 THEN [raised |-> TRUE, value |-> path]
        ELSE IF parts[3] = PackageMarker
             THEN [raised |-> FALSE, value |-> Join(SubSeq(parts, 3, Len(parts)))]
             ELSE [raised |-> FALSE, value |-> path]

\* try: ... except: return path
normalize_file_path(path) ==
    LET r == NormalizeTry(path)
    IN  IF r.raised THEN [raised |-> FALSE, value |-> path] ELSE r

(***************************************************************************)
(* Source File Resolver.  files is project_version.files in table order,   *)
(* each row [id, path]; NoFile is Python's None.                           *)
(***************************************************************************)
NoFile == [id |-> 0, path |-> <<>>]

\* project_version.files.filter(path__endswith=os.path.basename(file_path))
PossibleFiles(files, file_path) ==
    SelectSeq(files, LAMBDA f : EndsWith(f.path, Basename(file_path)))

\* Mutant: the inner loop has no break, so the last hit wins.
LastMatch(possible, target, best) ==
    LET hits == {k \in 1..Len(possible) : EndsWith(possible[k].path, target)}
    IN  IF hits = {} THEN best
        ELSE possible[CHOOSE k \in hits : \A j \in hits : j <= k]

\* The inner for loop: the first candidate ending with target, else best.
InnerScan(possible, target, best) ==
    LET hits == {k \in 1..Len(possible) : EndsWith(possible[k].path, target)}
    IN  IF hits = {} THEN best
        ELSE possible[CHOOSE k \in hits : \A j \in hits : k <= j]

RECURSIVE SuffixLoop(_, _, _, _)
\* for i in range(len(parts) - 1, -1, -1): i here is the 1-based index.
SuffixLoop(possible, parts, i, best) ==
    IF i < 1 THEN best
    ELSE LET target == <<Sep>> \o Join(SubSeq(parts, i, Len(parts)))
         IN  SuffixLoop(possible, parts, i - 1, InnerScan(possible, target, best))

\* Lines 261-279: the suffix disambiguation for two or more candidates.
Disambiguate(possible, file_path) ==
    LET parts == Split(Strip(file_path))
    IN  SuffixLoop(possible, parts, Len(parts), NoFile)

\* Mutant: no shortcut, a single candidate goes through the suffix loop too.
NoShortcut(possible, file_path) == Disambiguate(possible, file_path)

\* Lines 254-259: a single candidate is returned as it is.
SingleShortcut(possible, file_path) ==
    IF Len(possible) = 1 THEN possible[1] ELSE Disambiguate(possible, file_path)

get_most_likely_source(project_files, file_path) ==
    LET possible == PossibleFiles(project_files, file_path)
    IN  IF Len(possible) = 0 THEN NoFile
        ELSE SingleShortcut(possible, file_path)

(***************************************************************************)
(* Source-root filter: str(src_root).upper() in ["%SRCROOT%", "SRCROOT"].  *)
(***************************************************************************)
UpperMap ==
    [a |-> "A", b |-> "B", c |-> "C", d |-> "D", e |-> "E", f |-> "F", g |-> "G",
     h |-> "H", i |-> "I", j |-> "J", k |-> "K", l |-> "L", m |-> "M", n |-> "N",
     o |-> "O", p |-> "P", q |-> "Q", r |-> "R", s |-> "S", t |-> "T", u |-> "U",
     v |-> "V", w |-> "W", x |-> "X", y |-> "Y", z |-> "Z"]

\* Mutant: the comparison is case sensitive.
NoUpper(s) == s

\* str.upper()
Upper(s) == [i \in 1..Len(s) |-> IF s[i] \in DOMAIN UpperMap THEN UpperMap[s[i]] ELSE s[i]]

SrcRootPercent == <<"%", "S", "R", "C", "R", "O", "O", "T", "%">>
SrcRootPlain == <<"S", "R", "C", "R", "O", "O", "T">>

\* A key that the location does not carry (get_complex falls back on its default).
Absent == <<"absent">>

\* get_complex(artifact_location, "uriBaseId", "%SRCROOT%")
SrcRootOf(location) ==
    IF location.uriBaseId = Absent THEN SrcRootPercent ELSE location.uriBaseId

\* Mutant: every location passes the source-root filter.
AnyRoot(location) == TRUE

\* Lines 106-108: the location is processed only inside the source root.
InSourceRoot(location) == Upper(SrcRootOf(location)) \in {SrcRootPercent, SrcRootPlain}

(***************************************************************************)
(* Dedup key.  hashlib.sha256(json.dumps({title, path, line_number})): the *)
(* serialization is injective on (title, path, line) and the digest is     *)
(* taken as collision free, so the key is the triple itself.               *)
(***************************************************************************)
DedupKey(message, location) == <<message, location.uri, location.startLine>>

(***************************************************************************)
(* Bounds and input universes.                                             *)
(***************************************************************************)
\* Locations read by one import_sarif_file call.
MaxLocs == 3
\* Locations read by one call when the document may carry assertion_data.
MaxSideLocs == 2
\* Runs, results and locations of a document that is imported repeatedly.
MaxDocEvents == 4
\* Locations read by one call when two calls may overlap.
MaxConcLocs == 1
\* Calls of one handler when two calls may overlap.
MaxConcCalls == 1
\* Imports of a document that is imported repeatedly.
MaxImports == 2
\* Locations read by one call when the uriBaseId takes all its forms.
MaxRootLocs == 2
\* Locations of each run of a two-run document.
MaxRunLocs == 1
\* Segments of a path given to the pure functions.
MaxSegs == 4
\* File rows of the project version given to the resolver.
MaxFiles == 2
\* Entries of an assertion_data list.
MaxEntries == 2
\* AssertionsPerPackage rows the store may hold.
MaxPackages == 1

Procs == {1, 2}

P_rax == <<"/", "r", "/", "a", "/", "x">>
P_rbx == <<"/", "r", "/", "b", "/", "x">>
U_x == <<"x">>
U_ax == <<"a", "/", "x">>
U_bx == <<"b", "/", "x">>
U_z == <<"z">>

\* The File tables the project version may hold when the imports start.
FileConfigs ==
    { <<[id |-> 1, path |-> P_rax], [id |-> 2, path |-> P_rbx]>> }

NoPV == "none"
ProjectVersions == {"pv1"}
NoTool == "none"
ToolNames == {"t1", "t2"}
NoMessage == "none"
Messages == {"m1", "m2"}
Uris == {U_x, U_ax, U_bx, U_z}
Lines == {1}
\* uriBaseId values inside ("srcroot") and outside ("ROOT") the source root.
InsideRoots == {<<"s", "r", "c", "r", "o", "o", "t">>}
OutsideRoots == {<<"R", "O", "O", "T">>}
BaseIds == InsideRoots \cup OutsideRoots
\* More spellings of the two markers ("%SrcRoot%", "SRCROOT"), and a value
\* that is one character short of a marker ("%SRCROOT").
MixedCaseRoots == {<<"%", "S", "r", "c", "R", "o", "o", "t", "%">>,
                   <<"S", "R", "C", "R", "O", "O", "T">>}
NearMissRoots == {<<"%", "S", "R", "C", "R", "O", "O", "T">>}
\* Every uriBaseId of the universes that spells "%SRCROOT%" or "SRCROOT" in
\* some case, listed by hand.
MarkerSpellings == InsideRoots \cup MixedCaseRoots

Locations == [uriBaseId : BaseIds, uri : Uris, startLine : Lines]
NoLocation == [uriBaseId |-> Absent, uri |-> <<>>, startLine |-> 0]

\* What the three nested loops read next from the document: the next run,
\* the next result of the run, the next location of the result, or the end.
RunEvent(t) == [type |-> "run", tool |-> t, message |-> NoMessage, location |-> NoLocation]
ResultEvent(m) == [type |-> "result", tool |-> NoTool, message |-> m, location |-> NoLocation]
LocationEvent(l) == [type |-> "location", tool |-> NoTool, message |-> NoMessage, location |-> l]
EndEvent == [type |-> "end", tool |-> NoTool, message |-> NoMessage, location |-> NoLocation]

Events ==
    {RunEvent(t) : t \in ToolNames} \cup {ResultEvent(m) : m \in Messages}
        \cup {LocationEvent(l) : l \in Locations}

SarifKinds == {"none", "list", "dict"}
Versions == {"2.1.0", "2.0.0", "none"}

\* Entries of assertion_data: whether "subject" and "generator" are there.
Entries == [subject : BOOLEAN, generator : BOOLEAN]
\* sarif.get("assertion_data"): the key is missing, or holds a list of entries.
NoAssertionData == [present |-> FALSE, entries |-> <<>>]
AssertionInputs ==
    {NoAssertionData}
        \cup { [present |-> TRUE, entries |-> es] :
                 es \in UNION { [1..n -> Entries] : n \in 0..MaxEntries } }

(***************************************************************************)
(* State.                                                                  *)
(***************************************************************************)
VARIABLES
    files,                \* File rows of the project version, in table order
    tools,                \* Tool rows
    findings,             \* Finding rows (a bag: nothing makes a row unique)
    assertionsPerPackage, \* AssertionsPerPackage rows
    assertions,           \* Assertion rows
    call,                 \* call[p]: the import_sarif_file call of handler p
    upload,               \* the document the caller holds, when it is fixed
    fnArg, fnNorm, fnRes  \* argument and results of the pure functions

store == <<tools, findings, assertionsPerPackage, assertions>>
fnVars == <<fnArg, fnNorm, fnRes>>
vars == <<files, tools, findings, assertionsPerPackage, assertions, call, upload,
          fnArg, fnNorm, fnRes>>

NoFinding ==
    [title |-> NoMessage, file |-> 0, file_line |-> 0, project_version |-> NoPV,
     tool |-> NoTool]

\* (title, file, file_line, project_version) of a Finding row.
TupleOf(f) == <<f.title, f.file, f.file_line, f.project_version>>

StoredTuples(table) == {TupleOf(f) : f \in BagToSet(table)}

\* The arguments and locals of a call (kind and version stand for the sarif
\* argument before the loops read it), and what a check needs to remember:
\*   err        the error the validation raised, or "ok"
\*   asserted   what became of assertion_data: "absent", "not_run" (the call
\*              raised before it), "recorded" or "failed"
\*   nlocs      locations read so far
\*   seen       keys of the locations read whose uriBaseId is absent or one
\*              of MarkerSpellings
\*   outside    locations read whose uriBaseId is some other value
\*   absents    locations read that carry no uriBaseId
\*   preTuples  the tuples stored when the call began
\*   saved      Findings the call has saved
\*   round      calls begun so far by the handler, where they are counted
\*   reimport   the fixed upload has been imported before, and that call returned
\*   prevCount  size of the Finding table when a re-import began, else -1
IdleCall ==
    [pc |-> "idle", kind |-> "none", version |-> "none", err |-> "none",
     asserted |-> "absent", project_version |-> NoPV,
     tool |-> NoTool, message |-> NoMessage, processed |-> {}, num_imported |-> 0,
     finding |-> NoFinding, ret |-> "none", pos |-> 0, round |-> 0,
     reimport |-> FALSE,
     nlocs |-> 0, seen |-> {}, outside |-> 0, absents |-> 0,
     preTuples |-> {}, saved |-> 0, prevCount |-> -1]

\* upload.free: the caller holds no fixed document, every call reads a new one.
FreeUpload ==
    [free |-> TRUE, kind |-> "dict", version |-> "2.1.0",
     assertion_data |-> NoAssertionData, events |-> <<>>]

(***************************************************************************)
(* import_sarif_file, lines 47-66: validation, then the assertion side     *)
(* channel.                                                                *)
(***************************************************************************)
\* Lines 47-57: the error raised, or "ok".
Validate(kind, version, project_version) ==
    IF kind = "none" THEN "sarif_none"
    ELSE IF kind # "dict" THEN "sarif_not_dict"
    ELSE IF version # "2.1.0" THEN "version"
    ELSE IF project_version = NoPV THEN "project_version_none"
    ELSE "ok"

\* Mutant: the side channel is read right after the type check, before the
\* version and the project version are validated.
AssertionRunsEarly(kind, version, project_version, data) ==
    kind = "dict" /\ data.present

\* Lines 62-66: add_assertion is called once validation has passed and the
\* document carries assertion_data.
AssertionRuns(kind, version, project_version, data) ==
    Validate(kind, version, project_version) = "ok" /\ data.present

\* Lines 178-208.  len() and [0] come first (IndexError on an empty list),
\* then subject.get (AttributeError on a missing subject), then the package
\* row is saved, then one Assertion row per entry until an entry lacks its
\* generator.  Every exception is caught; rows saved before it stay.
add_assertion(packages, asserts, data) ==
    IF Len(data.entries) = 0 \/ ~data.entries[1].subject
    THEN [ok |-> FALSE, packages |-> packages, assertions |-> asserts]
    ELSE LET packages2 == Append(packages, [total_assertions |-> Len(data.entries)])
             bad == {k \in 1..Len(data.entries) : ~data.entries[k].generator}
             n == IF bad = {} THEN Len(data.entries)
                  ELSE (CHOOSE k \in bad : \A j \in bad : k <= j) - 1
         IN  [ok |-> bad = {}, packages |-> packages2,
              assertions |-> asserts \o [k \in 1..n |-> [package |-> Len(packages2)]]]

\* Mutant: a failed add_assertion aborts the call.
AssertionFailureRaises(err, ok) == IF ok THEN err ELSE "assertion"

\* Line 66: the boolean that add_assertion returns is dropped, so the call
\* goes on with what validation found.
AfterAssertion(err, ok) == err

\* The call begins: p is not inside a call.  limit bounds the calls that p
\* begins in one behaviour (0: any number, and they are not counted).
Begin(p, kind, version, project_version, data, limit) ==
    /\ call[p].pc = "idle"
    /\ limit = 0 \/ call[p].round < limit
    /\ LET run == AssertionRuns(kind, version, project_version, data)
           res == IF run THEN add_assertion(assertionsPerPackage, assertions, data)
                  ELSE [ok |-> TRUE, packages |-> assertionsPerPackage,
                        assertions |-> assertions]
           err == AfterAssertion(Validate(kind, version, project_version), res.ok)
           round == IF limit = 0 THEN 0 ELSE call[p].round + 1
           again == call[p].reimport /\ err = "ok"
       IN  /\ Len(res.packages) <= MaxPackages
           /\ assertionsPerPackage' = res.packages
           /\ assertions' = res.assertions
           /\ call' = [call EXCEPT ![p] =
                  [IdleCall EXCEPT
                     !.pc = IF err = "ok" THEN "loop" ELSE "raised",
                     !.kind = kind,
                     !.version = version,
                     !.err = err,
                     !.asserted = IF ~data.present THEN "absent"
                                  ELSE IF ~run THEN "not_run"
                                  ELSE IF res.ok THEN "recorded" ELSE "failed",
                     !.project_version = project_version,
                     !.round = round,
                     !.preTuples = StoredTuples(findings),
                     !.prevCount = IF again THEN BagCardinality(findings) ELSE -1]]
    /\ UNCHANGED <<files, tools, findings, upload, fnVars>>

\* The next thing the loops read: anything of the universe when the upload
\* is free, else what the fixed document holds at the call's position.
NextEvents(p, universe) ==
    IF upload.free THEN universe \cup {EndEvent}
    ELSE IF call[p].pos < Len(upload.events) THEN {upload.events[call[p].pos + 1]}
    ELSE {EndEvent}

Advance(c) == IF upload.free THEN c ELSE [c EXCEPT !.pos = @ + 1]

(***************************************************************************)
(* import_sarif_file, lines 68-176: the loops.                             *)
(***************************************************************************)
ToolVersion == "1.0"

\* Mutant: the set of seen keys is emptied at the start of every run.
BeginRunResets(p, e) ==
    /\ call[p].pc = "loop"
    /\ e.type = "run"
    /\ tools' = tools \cup {[name |-> e.tool, version |-> ToolVersion]}
    /\ call' = [call EXCEPT ![p] =
           Advance([@ EXCEPT !.tool = e.tool, !.message = NoMessage,
                             !.processed = {}])]
    /\ UNCHANGED <<files, findings, assertionsPerPackage, assertions, upload, fnVars>>

\* Lines 72-83: the next run; Tool.objects.get_or_create(name, version).
BeginRun(p, e) ==
    /\ call[p].pc = "loop"
    /\ e.type = "run"
    /\ tools' = tools \cup {[name |-> e.tool, version |-> ToolVersion]}
    /\ call' = [call EXCEPT ![p] =
           Advance([@ EXCEPT !.tool = e.tool, !.message = NoMessage])]
    /\ UNCHANGED <<files, findings, assertionsPerPackage, assertions, upload, fnVars>>

\* Lines 94-99: the next result of the run; its message text is read.
BeginResult(p, e) ==
    /\ call[p].pc = "loop"
    /\ e.type = "result"
    /\ call[p].tool # NoTool
    /\ call' = [call EXCEPT ![p] = Advance([@ EXCEPT !.message = e.message])]
    /\ UNCHANGED <<files, store, upload, fnVars>>

\* Mutant: num_imported += 1 sits inside the "if key not in processed" block,
\* so a repeated key is not counted.
LocateStepCountsNew(c, location, project_files) ==
    LET key == DedupKey(c.message, location)
        file_path == normalize_file_path(location.uri).value
        file == get_most_likely_source(project_files, file_path)
    IN  IF ~InSourceRoot(location) \/ key \in c.processed THEN c
        ELSE IF file = NoFile
             THEN [c EXCEPT !.processed = @ \cup {key}]
        ELSE [c EXCEPT !.processed = @ \cup {key},
                       !.pc = "check",
                       !.finding = [title |-> c.message, file |-> file.id,
                                    file_line |-> location.startLine,
                                    project_version |-> c.project_version,
                                    tool |-> c.tool]]

\* Lines 100-133 for one location of the result, up to the Finding being built.
LocateStep(c, location, project_files) ==
    LET key == DedupKey(c.message, location)
        file_path == normalize_file_path(location.uri).value
        file == get_most_likely_source(project_files, file_path)
    IN  IF ~InSourceRoot(location) THEN c
        ELSE IF key \in c.processed
             THEN [c EXCEPT !.num_imported = @ + 1]
        ELSE IF file = NoFile
             THEN [c EXCEPT !.processed = @ \cup {key}]
        ELSE [c EXCEPT !.processed = @ \cup {key},
                       !.pc = "check",
                       !.finding = [title |-> c.message, file |-> file.id,
                                    file_line |-> location.startLine,
                                    project_version |-> c.project_version,
                                    tool |-> c.tool]]

Locate(p, e, cap) ==
    /\ call[p].pc = "loop"
    /\ e.type = "location"
    /\ call[p].message # NoMessage
    /\ call[p].nlocs < cap
    /\ call' = [call EXCEPT ![p] =
           Advance([LocateStep(@, e.location, files) EXCEPT
              !.nlocs = @ + 1,
              !.seen = IF e.location.uriBaseId \in MarkerSpellings \cup {Absent}
                       THEN @ \cup {<<call[p].message, e.location.uri,
                                      e.location.startLine>>}
                       ELSE @,
              !.outside = IF e.location.uriBaseId \in MarkerSpellings \cup {Absent}
                          THEN @ ELSE @ + 1,
              !.absents = IF e.location.uriBaseId = Absent THEN @ + 1 ELSE @])]
    /\ UNCHANGED <<files, store, upload, fnVars>>

\* Mutant: the existence check also filters on the tool.
ExistsIdenticalOfTool(table, f) ==
    \E r \in BagToSet(table) : TupleOf(r) = TupleOf(f) /\ r.tool = f.tool

\* Mutant: the existence check is missing.
NeverExists(table, f) == FALSE

\* Lines 158-163: Finding.objects.filter(title, file, file_line,
\* project_version).exists()
ExistsIdentical(table, f) ==
    \E r \in BagToSet(table) :
        /\ r.title = f.title
        /\ r.file = f.file
        /\ r.file_line = f.file_line
        /\ r.project_version = f.project_version

\* Lines 158-165: a duplicate is skipped (continue), else the save follows.
CheckExists(p) ==
    /\ call[p].pc = "check"
    /\ call' = [call EXCEPT ![p] =
           IF ExistsIdentical(findings, @.finding)
           THEN [@ EXCEPT !.pc = "loop", !.finding = NoFinding]
           ELSE [@ EXCEPT !.pc = "save"]]
    /\ UNCHANGED <<files, store, upload, fnVars>>

\* Mutant: the table refuses a second row with the same tuple.
SaveRowUnique(table, row) ==
    IF TupleOf(row) \in StoredTuples(table) THEN table ELSE table (+) SetToBag({row})

\* Line 167: finding.save() inserts the row.
SaveRow(table, row) == table (+) SetToBag({row})

\* Lines 167-169: the save, then num_imported += 1.
Save(p) ==
    /\ call[p].pc = "save"
    /\ findings' = SaveRow(findings, call[p].finding)
    /\ call' = [call EXCEPT ![p] =
           [@ EXCEPT !.pc = "loop", !.finding = NoFinding,
                     !.num_imported = @ + 1, !.saved = @ + 1]]
    /\ UNCHANGED <<files, tools, assertionsPerPackage, assertions, upload, fnVars>>

\* Lines 171-176: the returned boolean.
ReturnValue(num_imported) == IF num_imported # 0 THEN "True" ELSE "False"

\* The document is exhausted: the call returns.
Finish(p, e) ==
    /\ call[p].pc = "loop"
    /\ e.type = "end"
    /\ call' = [call EXCEPT ![p] =
           [@ EXCEPT !.pc = "done", !.ret = ReturnValue(call[p].num_imported)]]
    /\ UNCHANGED <<files, store, upload, fnVars>>

\* The caller has the result (or the error); the handler is free again.
Return(p) ==
    /\ call[p].pc \in {"done", "raised"}
    /\ call' = [call EXCEPT ![p] =
           [IdleCall EXCEPT !.round = call[p].round,
                            !.reimport = ~upload.free /\ call[p].pc = "done"]]
    /\ UNCHANGED <<files, store, upload, fnVars>>

(***************************************************************************)
(* Spec: serialized imports.  One handler; every call reads a new          *)
(* document, revealed to the loops one piece at a time.                    *)
(***************************************************************************)
FnIdle ==
    /\ fnArg = <<>>
    /\ fnNorm = [done |-> FALSE, raised |-> FALSE, value |-> <<>>]
    /\ fnRes = [done |-> FALSE, file |-> NoFile]

StoreEmpty ==
    /\ tools = {}
    /\ findings = EmptyBag
    /\ assertionsPerPackage = <<>>
    /\ assertions = <<>>

Init ==
    /\ files \in FileConfigs
    /\ StoreEmpty
    /\ call = [p \in Procs |-> IdleCall]
    /\ upload = FreeUpload
    /\ FnIdle

ImportStep(p, universe, cap) ==
    \/ \E e \in NextEvents(p, universe) :
          \/ BeginRun(p, e)
          \/ BeginResult(p, e)
          \/ Locate(p, e, cap)
          \/ Finish(p, e)
    \/ CheckExists(p)
    \/ Save(p)
    \/ Return(p)

\* A call with any arguments, its assertion_data drawn from datas.
BeginFree(p, datas) ==
    \E kind \in SarifKinds, version \in Versions,
       pv \in ProjectVersions \cup {NoPV}, data \in datas :
        Begin(p, kind, version, pv, data, 0)

Next == BeginFree(1, {NoAssertionData}) \/ ImportStep(1, Events, MaxLocs)

Spec == Init /\ [][Next]_vars

(***************************************************************************)
(* Claims on the serialized imports.                                       *)
(***************************************************************************)
Done(p) == call[p].pc = "done"

\* The File the resolver gives for the uri of a key, after normalization.
ResolvedFile(key) ==
    get_most_likely_source(files, normalize_file_path(key[2]).value)

\* The keys read inside the source root whose file resolves.
ResolvedKeys(p) == {k \in call[p].seen : ResolvedFile(k) # NoFile}

\* (title, file, file_line, project_version) of the Finding a key stands for.
KeyTuple(p, k) == <<k[1], ResolvedFile(k).id, k[3], call[p].project_version>>

ResolvedTuples(p) == {KeyTuple(p, k) : k \in ResolvedKeys(p)}

\* C1 as claimed: a call that passed validation returns True if and only if
\* it persisted at least one new Finding.
C1_TrueIffPersisted ==
    \A p \in Procs : Done(p) => (call[p].ret = "True" <=> call[p].saved >= 1)

\* C2 as claimed: with at least one result inside the source root the call
\* returns True, and it persists as many Findings as there are distinct keys
\* whose file resolves, minus those that already existed in storage.
C2_CountsKeys ==
    \A p \in Procs :
        Done(p) /\ call[p].seen # {} =>
            /\ call[p].ret = "True"
            /\ call[p].saved =
                  Cardinality(ResolvedKeys(p))
                    - Cardinality({k \in ResolvedKeys(p) :
                                     KeyTuple(p, k) \in call[p].preTuples})

\* C2 amended: a serialized call persists as many Findings as there are
\* distinct (message, resolved File, startLine) tuples among the keys read
\* inside the source root whose file resolves, minus the tuples that were
\* stored before the call; and it returns True whenever that number is at
\* least one.
C2_CountsTuples ==
    \A p \in Procs :
        Done(p) =>
            /\ call[p].saved = Cardinality(ResolvedTuples(p) \ call[p].preTuples)
            /\ call[p].saved >= 1 => call[p].ret = "True"

\* Two keys of one call resolve to the same File and give one Finding.
C2_Witness ==
    \E p \in Procs :
        /\ Done(p)
        /\ call[p].saved = 1
        /\ Cardinality(ResolvedKeys(p)) = 2
        /\ call[p].preTuples # {}

\* C3: a version-2.1.0 document with no result, or with every location
\* outside the source root, makes the call return False and persist nothing.
C3_NothingInsideRoot ==
    \A p \in Procs :
        Done(p) /\ call[p].seen = {} => call[p].ret = "False" /\ call[p].saved = 0

\* A call that read locations, all of them outside the source root, returned.
C3_Witness ==
    \E p \in Procs :
        Done(p) /\ call[p].seen = {} /\ call[p].nlocs >= 2 /\ call[p].ret = "False"

\* C6: under serialized imports no two stored Findings share
\* (title, file, file_line, project_version).
C6_NoDuplicateFindings ==
    \A r \in BagToSet(findings) :
        /\ CopiesIn(r, findings) = 1
        /\ \A r2 \in BagToSet(findings) : TupleOf(r) = TupleOf(r2) => r = r2

\* Two Findings are stored, and a call has read two different uris that
\* resolve to the same File under one title and line.
C6_Witness ==
    /\ BagCardinality(findings) = 2
    /\ \E p \in Procs :
          /\ Done(p)
          /\ \E k1, k2 \in ResolvedKeys(p) :
                k1 # k2 /\ KeyTuple(p, k1) = KeyTuple(p, k2)

\* Locations of the call that were inside the source root and whose key the
\* call had read before.
Repeats(p) == call[p].nlocs - call[p].outside - Cardinality(call[p].seen)

\* A step of p that reads a location inside the source root.
ReadsInside(p) ==
    /\ call'[p].nlocs = call[p].nlocs + 1
    /\ call'[p].outside = call[p].outside

\* C12: a location whose key is new to the call has its key recorded and its
\* file resolved from the normalized path, with no count and no persist at
\* that step: an unresolved file ends the location, a resolved one leads to
\* the existence check, where an identical stored Finding ends the location,
\* again with no count and no persist; the counter goes up by one together
\* with the persist.  A location whose key the call has seen is counted at
\* once, with no resolution, no existence check and no persist.
C12_LocationSteps ==
    [][\A p \in Procs :
          /\ ReadsInside(p) /\ call'[p].seen # call[p].seen =>
                LET key == CHOOSE k \in call'[p].seen : k \notin call[p].seen
                IN  /\ call'[p].processed = call[p].processed \cup {key}
                    /\ key \notin call[p].processed
                    /\ call'[p].num_imported = call[p].num_imported
                    /\ findings' = findings
                    /\ IF ResolvedFile(key) = NoFile
                       THEN call'[p].pc = "loop" /\ call'[p].finding = NoFinding
                       ELSE /\ call'[p].pc = "check"
                            /\ TupleOf(call'[p].finding) = KeyTuple(p, key)
                            /\ call'[p].finding.tool = call[p].tool
          /\ ReadsInside(p) /\ call'[p].seen = call[p].seen =>
                /\ call'[p].num_imported = call[p].num_imported + 1
                /\ call'[p].processed = call[p].processed
                /\ call'[p].pc = "loop"
                /\ call'[p].finding = NoFinding
                /\ findings' = findings
          /\ call[p].pc = "check" /\ call'[p].pc # "check" =>
                /\ call'[p].num_imported = call[p].num_imported
                /\ findings' = findings
                /\ call'[p].pc = IF TupleOf(call[p].finding) \in StoredTuples(findings)
                                 THEN "loop" ELSE "save"
          /\ call[p].pc = "save" /\ call'[p].pc # "save" =>
                /\ findings' = findings (+) SetToBag({call[p].finding})
                /\ call'[p].num_imported = call[p].num_imported + 1
          /\ call[p].pc = "loop" /\ call'[p].pc = "loop"
               /\ call'[p].num_imported # call[p].num_imported =>
                ReadsInside(p) /\ call'[p].seen = call[p].seen]_vars

\* One call: a key persisted, a key whose file did not resolve, and a
\* repeat of a key, which was counted.
C12_Witness ==
    \E p \in Procs :
        /\ Done(p)
        /\ Cardinality(call[p].processed) = 2
        /\ Cardinality(ResolvedKeys(p)) = 1
        /\ call[p].saved = 1
        /\ Repeats(p) = 1
        /\ call[p].num_imported = 2

(***************************************************************************)
(* SpecSide: serialized imports of documents that may carry                *)
(* assertion_data.                                                         *)
(***************************************************************************)
\* One tool and one message are enough beside the side channel.
SideEvents ==
    {RunEvent("t1"), ResultEvent("m1")} \cup {LocationEvent(l) : l \in Locations}

NextSide == BeginFree(1, AssertionInputs) \/ ImportStep(1, SideEvents, MaxSideLocs)

SpecSide == Init /\ [][NextSide]_vars

\* The arguments of a call that validation must refuse.
BadArguments(c) ==
    \/ c.kind = "none"
    \/ c.kind = "list"
    \/ c.version # "2.1.0"
    \/ c.project_version = NoPV

\* C4: a call whose sarif is None or not a dict, whose version is not
\* "2.1.0" or whose project_version is None raises, and the step that
\* raises leaves the Tool, Finding, AssertionsPerPackage and Assertion
\* tables as they were.
C4_RaisesBeforeStoreAccess ==
    [][\A p \in Procs :
          call[p].pc = "idle" /\ call'[p].pc # "idle" /\ BadArguments(call'[p]) =>
              call'[p].pc = "raised" /\ UNCHANGED store]_vars

\* A document with an unsupported version and a recordable assertion_data
\* was refused after an earlier call had stored rows.
C4_Witness ==
    \E p \in Procs :
        /\ call[p].pc = "raised"
        /\ call[p].kind = "dict"
        /\ call[p].version = "2.0.0"
        /\ call[p].asserted = "not_run"
        /\ BagCardinality(findings) >= 1
        /\ assertions = <<>>

\* C11: a call whose assertion_data could not be recorded raises nothing and
\* enters the loops with the Tool and Finding tables as they were; and when
\* it returns, the Findings it persisted and the boolean it returns are what
\* the document and the store alone give, the same as for a call without
\* assertion_data: one Finding per tuple of a resolved key that was not
\* stored before, and True exactly when a Finding was persisted or a key
\* was repeated.
C11_AssertionFailureLeavesImport ==
    /\ [][\A p \in Procs :
             call[p].pc = "idle" /\ call'[p].asserted = "failed" =>
                /\ call'[p].pc = "loop"
                /\ call'[p].err = "ok"
                /\ UNCHANGED <<tools, findings>>]_vars
    /\ [](\A p \in Procs :
             Done(p) /\ call[p].asserted \in {"absent", "failed"} =>
                /\ StoredTuples(findings) \ call[p].preTuples
                     = ResolvedTuples(p) \ call[p].preTuples
                /\ call[p].saved = Cardinality(ResolvedTuples(p) \ call[p].preTuples)
                /\ call[p].ret = "True" <=> call[p].saved + Repeats(p) > 0)

\* The first entry of assertion_data lacked its generator, after the package
\* row was saved; the call went on, persisted a Finding and returned True.
C11_Witness ==
    \E p \in Procs :
        /\ Done(p)
        /\ call[p].asserted = "failed"
        /\ Len(assertionsPerPackage) = 1
        /\ assertions = <<>>
        /\ call[p].saved = 1
        /\ call[p].ret = "True"

(***************************************************************************)
(* SpecTwice: the caller holds one valid document and imports it again     *)
(* and again, each call after the previous one has returned.               *)
(***************************************************************************)
RECURSIVE DocTails(_, _, _)
\* What may follow in a document, in reading order, within n more pieces:
\* a result needs a run around it, a location needs a result around it.
DocTails(n, inRun, inResult) ==
    IF n = 0 THEN {<<>>}
    ELSE {<<>>}
         \cup { <<RunEvent(t)>> \o rest :
                  t \in ToolNames, rest \in DocTails(n - 1, TRUE, FALSE) }
         \cup (IF inRun
               THEN { <<ResultEvent(m)>> \o rest :
                        m \in Messages, rest \in DocTails(n - 1, TRUE, TRUE) }
               ELSE {})
         \cup (IF inResult
               THEN { <<LocationEvent(l)>> \o rest :
                        l \in Locations, rest \in DocTails(n - 1, TRUE, TRUE) }
               ELSE {})

FixedUploads ==
    { [free |-> FALSE, kind |-> "dict", version |-> "2.1.0",
       assertion_data |-> NoAssertionData, events |-> es] :
        es \in DocTails(MaxDocEvents, FALSE, FALSE) }

InitTwice ==
    /\ files \in FileConfigs
    /\ StoreEmpty
    /\ call = [p \in Procs |-> IdleCall]
    /\ upload \in FixedUploads
    /\ FnIdle

\* The caller passes the document it holds.
BeginFixed(p) ==
    \E pv \in ProjectVersions :
        Begin(p, upload.kind, upload.version, pv, upload.assertion_data, MaxImports)

NextTwice == BeginFixed(1) \/ ImportStep(1, Events, MaxDocEvents)

SpecTwice == InitTwice /\ [][NextTwice]_vars

\* C5: when a document is imported again after its import has returned,
\* against the same project version and File table, the Finding table has
\* the same size after the second call as after the first.
C5_SecondImportAddsNothing ==
    \A p \in Procs :
        Done(p) /\ call[p].prevCount >= 0 =>
            BagCardinality(findings) = call[p].prevCount

\* The second import of a document whose first import stored two Findings
\* has returned.
C5_Witness ==
    \E p \in Procs :
        /\ Done(p)
        /\ call[p].round = 2
        /\ call[p].prevCount = 2
        /\ Cardinality(call[p].processed) = 2

(***************************************************************************)
(* SpecConc: two handlers import against the same project version, their   *)
(* calls overlapping freely.  Each store access is one step: the           *)
(* get_or_create of a run, the File query of a location, the existence     *)
(* check, the save.                                                        *)
(***************************************************************************)
\* A call with valid arguments and no assertion_data.
BeginValid(p) ==
    \E pv \in ProjectVersions :
        Begin(p, "dict", "2.1.0", pv, NoAssertionData, MaxConcCalls)

\* Both tools, one message, and the two uris that resolve to the same File.
ConcEvents ==
    {RunEvent(t) : t \in ToolNames} \cup {ResultEvent("m1")}
        \cup {LocationEvent(l) :
                 l \in [uriBaseId : InsideRoots, uri : {U_x, U_ax}, startLine : Lines]}

NextConc ==
    \E p \in Procs : BeginValid(p) \/ ImportStep(p, ConcEvents, MaxConcLocs)

SpecConc == Init /\ [][NextConc]_vars

\* C7: the existence check and the save are separate steps and nothing ties
\* them together: a call that has passed the check inserts its row on its
\* next step whatever the other call has stored meanwhile, counts it as
\* imported and goes on; so two rows with the same tuple can be stored.
C7_SaveIgnoresConcurrentInsert ==
    [][\A p \in Procs :
          call[p].pc = "save" /\ call'[p].pc # "save" =>
              /\ BagCardinality(findings') = BagCardinality(findings) + 1
              /\ CopiesIn(call[p].finding, findings')
                   = CopiesIn(call[p].finding, findings) + 1
              /\ call'[p].pc = "loop"
              /\ call'[p].num_imported = call[p].num_imported + 1]_vars

\* Both calls passed the existence check for one tuple, both saved, both
\* returned True: two Findings share (title, file, file_line, project_version).
C7_Witness ==
    /\ \A p \in Procs : Done(p) /\ call[p].ret = "True" /\ call[p].saved = 1
    /\ \E r1, r2 \in BagToSet(findings) :
          /\ TupleOf(r1) = TupleOf(r2)
          /\ r1 # r2 \/ CopiesIn(r1, findings) = 2
    /\ BagCardinality(findings) = 2

(***************************************************************************)
(* SpecRoot: serialized imports whose locations carry every form of        *)
(* uriBaseId: the markers in several spellings, other values, and none.    *)
(***************************************************************************)
RootBaseIds == MarkerSpellings \cup OutsideRoots \cup NearMissRoots \cup {Absent}

RootEvents ==
    {RunEvent("t1")} \cup {ResultEvent(m) : m \in Messages}
        \cup {LocationEvent(l) :
                 l \in [uriBaseId : RootBaseIds, uri : {U_x, U_z}, startLine : Lines]}

NextRoot == BeginFree(1, {NoAssertionData}) \/ ImportStep(1, RootEvents, MaxRootLocs)

SpecRoot == Init /\ [][NextRoot]_vars

\* A step of p that reads a location.
ReadsLocation(p) == call'[p].nlocs = call[p].nlocs + 1

\* The step went past the source-root filter: the key was recorded, or it
\* was there and the location was counted.
Processed(p) ==
    \/ call'[p].processed # call[p].processed
    \/ call'[p].num_imported # call[p].num_imported

\* The step did nothing but skip the location.
Skipped(p) ==
    /\ call'[p].pc = "loop"
    /\ call'[p].processed = call[p].processed
    /\ call'[p].num_imported = call[p].num_imported
    /\ call'[p].finding = NoFinding
    /\ UNCHANGED store

\* C13 as claimed: a location is processed only if the value of its
\* uriBaseId spells "%SRCROOT%" or "SRCROOT" in some case; every other
\* location is skipped with no error, no key, no Finding and no count.
C13_OnlyMarkerValues ==
    [][\A p \in Procs :
          ReadsLocation(p) =>
              IF call'[p].outside = call[p].outside /\ call'[p].absents = call[p].absents
              THEN TRUE
              ELSE ~Processed(p) /\ Skipped(p)]_vars

\* C13 amended: a location is processed if and only if it carries no
\* uriBaseId (the default "%SRCROOT%" is then read) or the value of its
\* uriBaseId spells "%SRCROOT%" or "SRCROOT" in some case; every other
\* location is skipped with no error, no key, no Finding and no count.
C13_MarkerOrAbsent ==
    [][\A p \in Procs :
          ReadsLocation(p) =>
              IF call'[p].outside = call[p].outside
              THEN Processed(p)
              ELSE ~Processed(p) /\ Skipped(p)]_vars

\* A call read a location without uriBaseId, which gave a Finding, and a
\* location whose uriBaseId is no marker, which gave nothing.
C13_Witness ==
    \E p \in Procs :
        /\ Done(p)
        /\ call[p].nlocs = 2
        /\ call[p].absents = 1
        /\ call[p].outside = 1
        /\ call[p].saved = 1
        /\ Cardinality(call[p].processed) = 1

(***************************************************************************)
(* SpecRuns: the caller holds a document of two runs, each with its tool   *)
(* and one result of up to MaxRunLocs locations, and imports it, then      *)
(* again, each call after the previous one has returned.                   *)
(***************************************************************************)
RunLocations == [uriBaseId : BaseIds, uri : {U_x, U_ax, U_z}, startLine : Lines]

RunDoc(t, m, ls) ==
    <<RunEvent(t), ResultEvent(m)>> \o [i \in 1..Len(ls) |-> LocationEvent(ls[i])]

TwoRunUploads ==
    { [free |-> FALSE, kind |-> "dict", version |-> "2.1.0",
       assertion_data |-> NoAssertionData,
       events |-> RunDoc(ta, ma, la) \o RunDoc(tb, mb, lb)] :
        ta \in ToolNames, tb \in ToolNames, ma \in Messages, mb \in Messages,
        la \in UNION { [1..n -> RunLocations] : n \in 0..MaxRunLocs },
        lb \in UNION { [1..n -> RunLocations] : n \in 0..MaxRunLocs } }

InitRuns ==
    /\ files \in FileConfigs
    /\ StoreEmpty
    /\ call = [p \in Procs |-> IdleCall]
    /\ upload \in TwoRunUploads
    /\ FnIdle

NextRuns == BeginFixed(1) \/ ImportStep(1, Events, MaxRunLocs + MaxRunLocs)

SpecRuns == InitRuns /\ [][NextRuns]_vars

\* The tool of the run, and the message of the result, that piece i of the
\* document lies in.
ToolAt(i) ==
    LET runs == {j \in 1..i : upload.events[j].type = "run"}
    IN  upload.events[CHOOSE j \in runs : \A j2 \in runs : j2 <= j].tool

MessageAt(i) ==
    LET results == {j \in 1..i : upload.events[j].type = "result"}
    IN  upload.events[CHOOSE j \in results : \A j2 \in results : j2 <= j].message

\* The locations of the document that lie inside the source root.
InsideAt ==
    {i \in 1..Len(upload.events) :
        /\ upload.events[i].type = "location"
        /\ upload.events[i].location.uriBaseId \in MarkerSpellings \cup {Absent}}

\* (message.text, uri, startLine) of location i.
KeyAt(i) ==
    <<MessageAt(i), upload.events[i].location.uri,
      upload.events[i].location.startLine>>

\* Where the key of location i occurs first in the document.
FirstAt(i) ==
    CHOOSE j \in InsideAt : KeyAt(j) = KeyAt(i)
                             /\ \A j2 \in InsideAt : KeyAt(j2) = KeyAt(i) => j <= j2

\* C14: the set of seen keys is one per call, shared by the runs.  Only the
\* first location of the document that carries a key, inside the source
\* root, gets as far as the existence check and the save, and the Finding
\* built for it references the tool of the run that location lies in; a
\* Finding enters the table only by that save.  So a call persists at most
\* one Finding for a key, with the tool of the first run the key occurs in,
\* and a later run persists none for it.
C14_KeysSharedByRuns ==
    /\ [](\A p \in Procs :
             call[p].pc \in {"check", "save"} =>
                /\ call[p].pos \in InsideAt
                /\ FirstAt(call[p].pos) = call[p].pos
                /\ call[p].finding.tool = ToolAt(FirstAt(call[p].pos))
                /\ TupleOf(call[p].finding) = KeyTuple(p, KeyAt(call[p].pos)))
    /\ [][findings' # findings =>
             \E p \in Procs :
                /\ call[p].pc = "save"
                /\ findings' = findings (+) SetToBag({call[p].finding})]_vars
    /\ [](\A p \in Procs :
             Done(p) =>
                /\ call[p].saved <= Cardinality({KeyAt(i) : i \in InsideAt})
                /\ \A r \in BagToSet(findings) :
                      TupleOf(r) \notin call[p].preTuples =>
                         \E i \in InsideAt :
                            /\ TupleOf(r) = KeyTuple(p, KeyAt(i))
                            /\ r.tool = ToolAt(FirstAt(i)))

\* The two runs name different tools and both carry one key inside the
\* source root; the call persisted one Finding, with the first run's tool.
C14_Witness ==
    \E p \in Procs :
        /\ Done(p)
        /\ call[p].saved = 1
        /\ call[p].num_imported = 2
        /\ \E i, j \in InsideAt :
              /\ i < j
              /\ KeyAt(i) = KeyAt(j)
              /\ ToolAt(i) # ToolAt(j)
              /\ \A r \in BagToSet(findings) : r.tool = ToolAt(i)
        /\ BagCardinality(findings) = 1

(***************************************************************************)
(* SpecFn: the Path Normalizer and the Source File Resolver on their own.  *)
(* The path is any join of up to MaxSegs segments, or one of the paths the *)
(* documentation names; the File table is any list of up to MaxFiles paths *)
(* of FnFilePaths, or the documented pair.                                 *)
(***************************************************************************)
S_a == <<"a">>
S_b == <<"b">>
S_x == <<"x">>
S_r == <<"r">>
S_ax == <<"a", "x">>
S_src == <<"s", "r", "c">>
S_xjs == <<"x", ".", "j", "s">>
S_indexjs == <<"i", "n", "d", "e", "x", ".", "j", "s">>
S_repo == <<"r", "e", "p", "o">>

\* "/a/b/package/src/x.js", "a/b/package/src/x.js", "a/b", "b/index.js"
Ex_abs_package == Join(<<<<>>, S_a, S_b, PackageMarker, S_src, S_xjs>>)
Ex_rel_package == Join(<<S_a, S_b, PackageMarker, S_src, S_xjs>>)
Ex_ab == Join(<<S_a, S_b>>)
Ex_b_index == Join(<<S_b, S_indexjs>>)

\* ["/repo/a/index.js", "/repo/b/index.js"]
Ex_files ==
    << [id |-> 1, path |-> Join(<<<<>>, S_repo, S_a, S_indexjs>>)],
       [id |-> 2, path |-> Join(<<<<>>, S_repo, S_b, S_indexjs>>)] >>

FnSegments == {<<>>, S_a, S_x, PackageMarker}

FnPaths ==
    { Join(segs) : segs \in UNION { [1..n -> FnSegments] : n \in 1..MaxSegs } }
        \cup {Ex_abs_package, Ex_rel_package, Ex_ab, Ex_b_index}

\* "/r/a/x", "/r/x/x", "/a/x", "/r/ax"
FnFilePaths ==
    { Join(<<<<>>, S_r, S_a, S_x>>), Join(<<<<>>, S_r, S_x, S_x>>),
      Join(<<<<>>, S_a, S_x>>), Join(<<<<>>, S_r, S_ax>>) }

FnFileLists ==
    { [k \in DOMAIN ps |-> [id |-> k, path |-> ps[k]]] :
        ps \in UNION { [1..n -> FnFilePaths] : n \in 0..MaxFiles } }
        \cup {Ex_files}

InitFn ==
    /\ files \in FnFileLists
    /\ StoreEmpty
    /\ call = [p \in Procs |-> IdleCall]
    /\ upload = FreeUpload
    /\ fnArg \in FnPaths
    /\ fnNorm = [done |-> FALSE, raised |-> FALSE, value |-> <<>>]
    /\ fnRes = [done |-> FALSE, file |-> NoFile]

\* normalize_file_path(fnArg) is called.
CallNormalize ==
    /\ ~fnNorm.done
    /\ fnNorm' = [done |-> TRUE, raised |-> normalize_file_path(fnArg).raised,
                  value |-> normalize_file_path(fnArg).value]
    /\ UNCHANGED <<files, store, call, upload, fnArg, fnRes>>

\* get_most_likely_source(project_version, fnArg) is called.
CallResolve ==
    /\ ~fnRes.done
    /\ fnRes' = [done |-> TRUE, file |-> get_most_likely_source(files, fnArg)]
    /\ UNCHANGED <<files, store, call, upload, fnArg, fnNorm>>

NextFn == CallNormalize \/ CallResolve

SpecFn == InitFn /\ [][NextFn]_vars

\* The candidates of step 1, in table order.
Candidates == SelectSeq(files, LAMBDA f : EndsWith(f.path, Basename(fnArg)))

\* The segment suffixes of the stripped path, as strings.
SegmentSuffixes ==
    LET parts == Split(Strip(fnArg))
    IN  { Join(SubSeq(parts, i, Len(parts))) : i \in 1..Len(parts) }

\* The candidates whose path ends with separator + suffix.
EndingWith(suffix) ==
    {k \in 1..Len(Candidates) : EndsWith(Candidates[k].path, <<Sep>> \o suffix)}

MatchedSuffixes == {suffix \in SegmentSuffixes : EndingWith(suffix) # {}}

LongestMatched ==
    CHOOSE suffix \in MatchedSuffixes :
        \A other \in MatchedSuffixes : Len(other) <= Len(suffix)

FirstEndingWith(suffix) ==
    Candidates[CHOOSE k \in EndingWith(suffix) : \A j \in EndingWith(suffix) : k <= j]

\* C8: with two or more candidates the resolver returns the first candidate,
\* in candidate order, that ends with separator + the longest segment suffix
\* of the stripped path that any candidate ends with, and none only when no
\* suffix matches; for ["/repo/a/index.js", "/repo/b/index.js"] and
\* "b/index.js" that is the "/repo/b/index.js" row.
C8_LongestSuffixFirstCandidate ==
    fnRes.done /\ Len(Candidates) >= 2 =>
        /\ fnRes.file = IF MatchedSuffixes = {} THEN NoFile
                        ELSE FirstEndingWith(LongestMatched)
        /\ files = Ex_files /\ fnArg = Ex_b_index => fnRes.file = Ex_files[2]

\* Two suffixes match, the longest one not at the first candidate that the
\* shortest one matches.
C8_Witness ==
    /\ fnRes.done
    /\ Len(Candidates) >= 2
    /\ Cardinality(MatchedSuffixes) >= 2
    /\ fnRes.file # NoFile
    /\ fnRes.file # FirstEndingWith(Basename(Strip(fnArg)))

\* The Files whose path ends with the basename of the reported path.
BasenameMatches ==
    {k \in 1..Len(files) : EndsWith(files[k].path, Basename(fnArg))}

\* C9: with no File ending with the basename the resolver returns none; with
\* exactly one it returns that File, whether or not the basename starts at a
\* segment boundary of its path.
C9_CandidateShortcuts ==
    fnRes.done =>
        /\ BasenameMatches = {} => fnRes.file = NoFile
        /\ \A k \in BasenameMatches :
              BasenameMatches = {k} => fnRes.file = files[k]

\* The only candidate ends with the basename but not with separator + basename.
C9_Witness ==
    /\ fnRes.done
    /\ Cardinality(BasenameMatches) = 1
    /\ fnRes.file # NoFile
    /\ Basename(fnArg) # <<>>
    /\ ~EndsWith(fnRes.file.path, <<Sep>> \o Basename(fnArg))

Chars ==
    {Sep, ".", "a", "b", "c", "d", "e", "g", "i", "j", "k", "n", "o", "p", "r",
     "s", "x"}

IsString(v) == /\ DOMAIN v = 1..Len(v)
               /\ \A i \in DOMAIN v : v[i] \in Chars

\* C10 as claimed: "/a/b/package/src/x.js" gives "package/src/x.js", a path
\* with fewer than 3 segments is returned unchanged, and the function never
\* raises and always returns a string.
C10_AbsoluteExampleCut ==
    fnNorm.done =>
        /\ ~fnNorm.raised
        /\ IsString(fnNorm.value)
        /\ fnArg = Ex_abs_package =>
              fnNorm.value = Join(<<PackageMarker, S_src, S_xjs>>)
        /\ Len(Split(fnArg)) < 3 => fnNorm.value = fnArg

\* C10 amended: "a/b/package/src/x.js" gives "package/src/x.js": a path whose
\* segment at index 2 is the marker loses its first two segments.
\* "/a/b/package/src/x.js", whose segment at index 2 is "b", is returned
\* unchanged, as is every path whose segment at index 2 is not the marker or
\* that has fewer than 3 segments ("a/b").  For no string does the function
\* raise: it always returns a string.
C10_MarkerAtIndexTwo ==
    fnNorm.done =>
        /\ ~fnNorm.raised
        /\ IsString(fnNorm.value)
        /\ fnArg = Ex_rel_package =>
              fnNorm.value = Join(<<PackageMarker, S_src, S_xjs>>)
        /\ fnArg = Ex_abs_package => fnNorm.value = fnArg
        /\ fnArg = Ex_ab => fnNorm.value = fnArg
        /\ LET parts == Split(fnArg)
           IN  IF Len(parts) >= 3 /\ parts[3] = PackageMarker
               THEN fnNorm.value = Join(Tail(Tail(parts)))
               ELSE fnNorm.value = fnArg

\* The marker at index 2 of a longer path: the path was cut.
C10_Witness ==
    /\ fnNorm.done
    /\ fnArg = Ex_rel_package
    /\ fnNorm.value = Join(<<PackageMarker, S_src, S_xjs>>)
====
